---- MODULE Spec2Model ----
(***************************************************************************)
(* Model of src/arithmetic/fields.rs: the limb primitives adc, sbb and mac *)
(* and the default methods BaseExt::ct_is_zero and BaseExt::pow.           *)
(*                                                                         *)
(* TLC's integers are 32 bits wide, so a u64 or u128 value is held at its  *)
(* true width as a little-endian sequence of base-2^8 digits without       *)
(* trailing zero digits (the empty sequence is 0).  The operators Nat* are *)
(* exact arithmetic on such numbers; the u64/u128 operators of the code    *)
(* are built from them with explicit truncation.                           *)
(***************************************************************************)
EXTENDS Integers, Sequences, FiniteSets, TLC

\* ------------------------------------------------------------------ bounds
\* Small limb values 0..SmallMax are part of the sampled limbs.
SmallMax == 4
\* Longest multi-limb integer of a borrow chain.
MaxChain == 3
\* The modulus of the concrete field the default methods are run on.
Modulus == 7

\* ------------------------------------------------------- program constants
\* Width of a limb (u64) and of the double-width intermediate (u128).
LimbBits == 64
WideBits == 128
\* sbb reads bit 63 of the incoming borrow.
BorrowShift == 63
\* pow takes an exponent of four limbs.
ExpLimbs == 4
\* A digit of the representation is one byte (u8).
DigitBits == 8

\* ------------------------------------------------- exact natural numbers
Base == 2 ^ DigitBits

RECURSIVE Norm(_)
\* Drop trailing (most significant) zero digits.
Norm(s) ==
    IF s = <<>> THEN <<>>
    ELSE IF s[Len(s)] = 0 THEN Norm(SubSeq(s, 1, Len(s) - 1))
    ELSE s

RECURSIVE FromInt(_)
FromInt(n) == IF n = 0 THEN <<>> ELSE <<n % Base>> \o FromInt(n \div Base)

RECURSIVE ToInt(_)
\* Only used on numbers known to be small.
ToInt(s) == IF s = <<>> THEN 0 ELSE s[1] + Base * ToInt(Tail(s))

Digit(s, k) == IF k <= Len(s) THEN s[k] ELSE 0

RECURSIVE AddFrom(_, _, _, _)
AddFrom(x, y, k, cin) ==
    IF k > Len(x) /\ k > Len(y)
    THEN (IF cin = 0 THEN <<>> ELSE <<cin>>)
    ELSE LET t == Digit(x, k) + Digit(y, k) + cin
         IN  <<t % Base>> \o AddFrom(x, y, k + 1, t \div Base)

NatAdd(x, y) == Norm(AddFrom(x, y, 1, 0))

RECURSIVE SubFrom(_, _, _, _)
SubFrom(x, y, k, bin) ==
    IF k > Len(x) THEN <<>>
    ELSE LET t == Digit(x, k) - Digit(y, k) - bin
         IN  IF t < 0 THEN <<t + Base>> \o SubFrom(x, y, k + 1, 1)
             ELSE <<t>> \o SubFrom(x, y, k + 1, 0)

RECURSIVE LessFrom(_, _, _)
LessFrom(x, y, k) ==
    IF k = 0 THEN FALSE
    ELSE IF x[k] # y[k] THEN x[k] < y[k]
    ELSE LessFrom(x, y, k - 1)

NatLess(x, y) ==
    IF Len(x) # Len(y) THEN Len(x) < Len(y) ELSE LessFrom(x, y, Len(x))

\* x - y, for y <= x.
NatSub(x, y) == Norm(SubFrom(x, y, 1, 0))

RECURSIVE MulDigitFrom(_, _, _, _)
MulDigitFrom(x, d, k, cin) ==
    IF k > Len(x) THEN (IF cin = 0 THEN <<>> ELSE <<cin>>)
    ELSE LET t == x[k] * d + cin
         IN  <<t % Base>> \o MulDigitFrom(x, d, k + 1, t \div Base)

RECURSIVE NatMul(_, _)
NatMul(x, y) ==
    IF y = <<>> \/ x = <<>> THEN <<>>
    ELSE NatAdd(Norm(MulDigitFrom(x, y[1], 1, 0)),
                Norm(<<0>> \o NatMul(x, Tail(y))))

\* 2^k.
Pow2(k) == [i \in 1..(k \div DigitBits) |-> 0] \o <<2 ^ (k % DigitBits)>>

\* x mod 2^k.
RECURSIVE LowFrom(_, _, _)
LowFrom(x, k, i) ==
    IF k <= 0 \/ i > Len(x) THEN <<>>
    ELSE IF k >= DigitBits THEN <<x[i]>> \o LowFrom(x, k - DigitBits, i + 1)
    ELSE <<x[i] % (2 ^ k)>>

NatLow(x, k) == Norm(LowFrom(x, k, 1))

\* floor(x / 2^k).
RECURSIVE ShrFrom(_, _, _)
ShrFrom(x, r, i) ==
    IF i > Len(x) THEN <<>>
    ELSE <<(x[i] \div (2 ^ r)) + (Digit(x, i + 1) % (2 ^ r)) * (2 ^ (DigitBits - r))>>
         \o ShrFrom(x, r, i + 1)

NatShr(x, k) == Norm(ShrFrom(x, k % DigitBits, (k \div DigitBits) + 1))

\* x mod m for a small modulus m >= 1, most significant digit first.
RECURSIVE ModFrom(_, _, _, _)
ModFrom(x, m, k, r) ==
    IF k = 0 THEN r ELSE ModFrom(x, m, k - 1, (r * Base + x[k]) % m)

NatModSmall(x, m) == ModFrom(x, m, Len(x), 0)

\* ------------------------------------------------------ machine integers
Zero == <<>>
One == <<1>>
MaxLimb == NatSub(Pow2(LimbBits), One)

\* `v as u64`: the low limb of a wide value.
AsU64(v) == NatLow(v, LimbBits)
\* `v >> 64`.
HighLimb(v) == NatShr(v, LimbBits)
\* u128 addition and multiplication, wrapping at the width of the type.
WideAdd(x, y) == NatLow(NatAdd(x, y), WideBits)
WideMul(x, y) == NatLow(NatMul(x, y), WideBits)
\* u128::wrapping_sub.
WideWrappingSub(x, y) ==
    IF NatLess(x, y) THEN NatSub(NatAdd(x, Pow2(WideBits)), y) ELSE NatSub(x, y)

\* ------------------------------------------------------- limb primitives
\* A mutation of adc: the carry over is taken one bit too low.
adc_shift63(a, b, carry) ==
    LET r == WideAdd(WideAdd(a, b), carry)
    IN  <<AsU64(r), AsU64(NatShr(r, BorrowShift))>>

\* A mutation of adc: the incoming carry is dropped.
adc_nocarry(a, b, carry) ==
    LET r == WideAdd(a, b)
    IN  <<AsU64(r), AsU64(HighLimb(r))>>

adc(a, b, carry) ==
    LET r == WideAdd(WideAdd(a, b), carry)
    IN  <<AsU64(r), AsU64(HighLimb(r))>>

\* A mutation of sbb: the borrow limb is subtracted as a number.
sbb_fullborrow(a, b, borrow) ==
    LET r == WideWrappingSub(a, WideAdd(b, borrow))
    IN  <<AsU64(r), AsU64(HighLimb(r))>>

\* A mutation of sbb: the subtraction wraps at the limb width, so the high
\* limb is 0.
sbb_narrow(a, b, borrow) ==
    LET r == AsU64(WideWrappingSub(a, WideAdd(b, NatShr(borrow, BorrowShift))))
    IN  <<AsU64(r), AsU64(HighLimb(r))>>

\* A mutation of sbb: the borrow flag is read from bit 0.
sbb_lowbit(a, b, borrow) ==
    LET r == WideWrappingSub(a, WideAdd(b, NatLow(borrow, 1)))
    IN  <<AsU64(r), AsU64(HighLimb(r))>>

sbb(a, b, borrow) ==
    LET r == WideWrappingSub(a, WideAdd(b, NatShr(borrow, BorrowShift)))
    IN  <<AsU64(r), AsU64(HighLimb(r))>>

\* A mutation of mac: the product is taken at limb width.
mac_narrow(a, b, c, carry) ==
    LET r == WideAdd(WideAdd(a, AsU64(NatMul(b, c))), carry)
    IN  <<AsU64(r), AsU64(HighLimb(r))>>

mac(a, b, c, carry) ==
    LET r == WideAdd(WideAdd(a, WideMul(b, c)), carry)
    IN  <<AsU64(r), AsU64(HighLimb(r))>>

\* ---------------------------------------------------------- sampled limbs
EdgeLimbs ==
    { Zero, One,
      NatSub(Pow2(BorrowShift), One), Pow2(BorrowShift),
      NatSub(MaxLimb, One), MaxLimb }

Limbs == EdgeLimbs \cup { FromInt(n) : n \in 0..SmallMax }

\* ------------------------------------------------------------------ state
VARIABLES
    fn, args, ret,                  \* a call of a primitive: name, inputs, result
    chA, chB, chDiff, chBorrow,     \* a limb-by-limb subtraction in progress
    pc, self, by, res, tmp,         \* a call of pow: position, inputs, locals
    e_idx, i,                       \* pow's loop indices (limb, bit)
    nSquare, nMul, nSelect          \* field operations pow has executed

callVars == <<fn, args, ret>>
chainVars == <<chA, chB, chDiff, chBorrow>>
powVars == <<pc, self, by, res, tmp, e_idx, i, nSquare, nMul, nSelect>>
vars == <<callVars, chainVars, powVars>>

NoCall == fn = "none" /\ args = <<>> /\ ret = <<>>
NoChain == chA = <<>> /\ chB = <<>> /\ chDiff = <<>> /\ chBorrow = Zero
NoPow ==
    /\ pc = "off" /\ self = 0 /\ by = <<>> /\ res = 0 /\ tmp = 0
    /\ e_idx = 0 /\ i = 0 /\ nSquare = 0 /\ nMul = 0 /\ nSelect = 0

\* ------------------------------------------- calls of the limb primitives
\* The inputs (a, b, c, carry) are drawn first; each primitive is then
\* applied to them.  adc and sbb take (a, b, carry).
ArgA == args[1]
ArgB == args[2]
ArgC == args[3]
ArgCarry == args[4]

Init ==
    /\ fn = "none"
    /\ args \in Limbs \X Limbs \X Limbs \X Limbs
    /\ ret = <<>>
    /\ NoChain
    /\ NoPow

adc_call ==
    /\ fn = "none"
    /\ fn' = "adc"
    /\ ret' = adc(ArgA, ArgB, ArgCarry)
    /\ UNCHANGED <<args, chainVars, powVars>>

sbb_call ==
    /\ fn = "none"
    /\ fn' = "sbb"
    /\ ret' = sbb(ArgA, ArgB, ArgCarry)
    /\ UNCHANGED <<args, chainVars, powVars>>

mac_call ==
    /\ fn = "none"
    /\ fn' = "mac"
    /\ ret' = mac(ArgA, ArgB, ArgC, ArgCarry)
    /\ UNCHANGED <<args, chainVars, powVars>>

Next == adc_call \/ sbb_call \/ mac_call

Spec == Init /\ [][Next]_vars

\* --------------------------------------------- claims on the primitives
Two == FromInt(2)
IsBit(v) == v \in {Zero, One}
\* carry_out * 2^64 + sum, exactly.
Joined(r) == NatAdd(NatMul(r[2], Pow2(LimbBits)), r[1])
\* The top bit of a limb.
TopBit(v) == NatShr(v, LimbBits - 1)

\* C5: for limbs a, b and a carry bit c, adc(a, b, c) = (sum, carry_out) with
\* a + b + c = carry_out * 2^64 + sum, the exact sum staying below 2^128;
\* adc(2^64 - 1, 1, 0) = (0, 1).
C5_AdcExact ==
    (fn = "adc" /\ IsBit(ArgCarry)) =>
        LET exact == NatAdd(NatAdd(ArgA, ArgB), ArgCarry)
        IN  /\ exact = Joined(ret)
            /\ NatLess(exact, Pow2(WideBits))
            /\ (ArgA = MaxLimb /\ ArgB = One /\ ArgCarry = Zero) => ret = <<Zero, One>>

C5_Witness ==
    /\ fn = "adc" /\ ArgA = MaxLimb /\ ArgB = One /\ ArgCarry = Zero
    /\ ret = <<Zero, One>>

\* C6 as stated: the carry_out of adc is 0 or 1 for every limb carry.
C6_AdcCarryOutBit == fn = "adc" => IsBit(ret[2])

\* C6 amended: the carry_out of adc is 0, 1 or 2 for every limb carry, and
\* it is 0 or 1 whenever the incoming carry is 0 or 1.
C6_AdcCarryOutRange ==
    fn = "adc" =>
        /\ ret[2] \in {Zero, One, Two}
        /\ IsBit(ArgCarry) => IsBit(ret[2])

C6_Witness ==
    /\ fn = "adc" /\ ArgA = MaxLimb /\ ArgB = MaxLimb /\ ArgCarry = MaxLimb
    /\ ret[2] = Two

\* C4: mac(a, b, c, carry) = (sum, carry_out) with
\* a + b*c + carry = carry_out * 2^64 + sum for all limbs, the exact value
\* staying below 2^128; mac(0, 3, 4, 0) = (12, 0).
C4_MacExact ==
    fn = "mac" =>
        LET exact == NatAdd(NatAdd(ArgA, NatMul(ArgB, ArgC)), ArgCarry)
        IN  /\ exact = Joined(ret)
            /\ NatLess(exact, Pow2(WideBits))
            /\ (ArgA = Zero /\ ArgB = FromInt(3) /\ ArgC = FromInt(4) /\ ArgCarry = Zero)
                  => ret = <<FromInt(12), Zero>>

C4_Witness ==
    /\ fn = "mac"
    /\ ArgA = MaxLimb /\ ArgB = MaxLimb /\ ArgC = MaxLimb /\ ArgCarry = MaxLimb
    /\ ret = <<MaxLimb, MaxLimb>>

\* diff = a - b - c (mod 2^64), and the top bit of borrow_out is set exactly
\* when a - b - c is negative.
SbbSubtracts(a, b, c, r) ==
    /\ AsU64(NatAdd(NatAdd(r[1], b), c)) = a
    /\ (TopBit(r[2]) = One) <=> NatLess(a, NatAdd(b, c))

C10_SbbBorrowOut ==
    fn = "sbb" =>
        /\ ret[2] \in {Zero, MaxLimb}
        /\ \A bw \in Limbs :
              TopBit(bw) = TopBit(ArgCarry) => sbb(ArgA, ArgB, bw) = ret

C10_Witness ==
    /\ fn = "sbb" /\ ArgA = Zero /\ ArgB = MaxLimb /\ ArgCarry = Pow2(BorrowShift)
    /\ ret = <<Zero, MaxLimb>>

\* ------------------------------------------------ limb-by-limb subtraction
\* Two little-endian integers of the same number of limbs are subtracted by
\* one sbb per limb, the first with borrow 0, each later one with the
\* borrow_out of the one before.
ChainLimbs == { Zero, One, MaxLimb }

InitChain ==
    /\ NoCall
    /\ \E n \in 1..MaxChain :
          /\ chA \in [1..n -> ChainLimbs]
          /\ chB \in [1..n -> ChainLimbs]
    /\ chDiff = <<>>
    /\ chBorrow = Zero
    /\ NoPow

sbb_chain_step ==
    /\ Len(chDiff) < Len(chA)
    /\ LET k == Len(chDiff) + 1
           r == sbb(chA[k], chB[k], chBorrow)
       IN  /\ chDiff' = Append(chDiff, r[1])
           /\ chBorrow' = r[2]
    /\ UNCHANGED <<chA, chB, callVars, powVars>>

NextChain == sbb_chain_step

SpecChain == InitChain /\ [][NextChain]_vars

\* The digits of a limb, padded to the full width of the limb.
LimbDigits(l) == [k \in 1..(LimbBits \div DigitBits) |-> Digit(l, k)]

RECURSIVE AllDigits(_)
AllDigits(s) == IF s = <<>> THEN <<>> ELSE LimbDigits(s[1]) \o AllDigits(Tail(s))

\* The integer a little-endian sequence of limbs stands for,
\* s[1] + s[2] * 2^64 + s[3] * 2^128 + ...: its digits are those of the
\* limbs, one limb after the other.
LimbsValue(s) == Norm(AllDigits(s))

\* C8: after the first k limbs of A and B (k >= 1) have gone through the
\* chain, the k diff limbs are (A - B) mod 2^(64k) for the k-limb integers
\* A and B, and the top bit of the last borrow_out is 1 iff A < B.
C8_SbbChain ==
    Len(chDiff) >= 1 =>
        LET k == Len(chDiff)
            A == LimbsValue(SubSeq(chA, 1, k))
            B == LimbsValue(SubSeq(chB, 1, k))
            D == LimbsValue(chDiff)
        IN  /\ NatLow(NatAdd(D, B), LimbBits * k) = A
            /\ (TopBit(chBorrow) = One) <=> NatLess(A, B)

C8_Witness ==
    /\ chA = <<Zero, Zero>> /\ chB = <<One, Zero>>
    /\ chDiff = <<MaxLimb, MaxLimb>> /\ chBorrow = MaxLimb

\* ------------------------------------------------------ the concrete field
\* BaseExt is implemented by a concrete field type outside this file.  The
\* model runs the default methods on the integers modulo Modulus, an
\* element being its canonical representative; a Choice is 0 or 1.
FieldElems == 0..(Modulus - 1)
zero == 0
one == 1 % Modulus
square(a) == (a * a) % Modulus
mul(a, b) == (a * b) % Modulus
ct_eq(a, b) == IF a = b THEN 1 ELSE 0
conditional_assign(a, b, choice) == IF choice = 1 THEN b ELSE a

\* ------------------------------------------------------------- ct_is_zero
\* A mutation of ct_is_zero: the element is compared with one.
ct_is_zero_one(x) == ct_eq(x, one)

ct_is_zero(x) == ct_eq(x, zero)

\* -------------------------------------------------------------------- pow
\* A mutation of ExpBit: the bits of a limb are read from the other end.
ExpBit_reversed(e, k) == ToInt(NatLow(NatShr(e, LimbBits - 1 - k), 1))

\* ((e >> k) & 0x1) as u8
ExpBit(e, k) == ToInt(NatLow(NatShr(e, k), 1))

\* Exponents: every combination of three limb values, and the small
\* exponents 0..SmallMax.
PowLimbs == { Zero, Two, MaxLimb }
PowExps ==
    [1..ExpLimbs -> PowLimbs]
    \cup { [k \in 1..ExpLimbs |-> IF k = 1 THEN FromInt(n) ELSE Zero] : n \in 0..SmallMax }

InitPow ==
    /\ NoCall
    /\ NoChain
    /\ pc = "start"
    /\ self \in FieldElems
    /\ by \in PowExps
    /\ res = 0 /\ tmp = 0 /\ e_idx = 0 /\ i = 0
    /\ nSquare = 0 /\ nMul = 0 /\ nSelect = 0

ct_is_zero_call ==
    /\ pc = "start"
    /\ pc' = "tested"
    /\ fn' = "ct_is_zero"
    /\ args' = <<self>>
    /\ ret' = <<ct_is_zero(self)>>
    /\ UNCHANGED <<chainVars, self, by, res, tmp, e_idx, i, nSquare, nMul, nSelect>>

\* let mut res = Self::one(); the loops start at the last limb, bit 63.
pow_enter ==
    /\ pc = "start"
    /\ res' = one
    /\ e_idx' = ExpLimbs
    /\ i' = LimbBits - 1
    /\ pc' = "square"
    /\ UNCHANGED <<callVars, chainVars, self, by, tmp, nSquare, nMul, nSelect>>

\* res = res.square();
pow_square ==
    /\ pc = "square"
    /\ res' = square(res)
    /\ nSquare' = nSquare + 1
    /\ pc' = "mul"
    /\ UNCHANGED <<callVars, chainVars, self, by, tmp, e_idx, i, nMul, nSelect>>

\* A mutation of pow_mul: the multiplication is skipped when the bit is 0.
pow_mul_branching ==
    /\ pc = "mul"
    /\ IF ExpBit(by[e_idx], i) = 1
       THEN tmp' = mul(res, self) /\ nMul' = nMul + 1
       ELSE tmp' = res /\ nMul' = nMul
    /\ pc' = "select"
    /\ UNCHANGED <<callVars, chainVars, self, by, res, e_idx, i, nSquare, nSelect>>

\* let mut tmp = res; tmp *= self;
pow_mul ==
    /\ pc = "mul"
    /\ tmp' = mul(res, self)
    /\ nMul' = nMul + 1
    /\ pc' = "select"
    /\ UNCHANGED <<callVars, chainVars, self, by, res, e_idx, i, nSquare, nSelect>>

\* The rest of one pass of the loops after the select: the next bit, the
\* next limb, or the return of res.
pow_advance ==
    IF i > 0 THEN /\ i' = i - 1 /\ e_idx' = e_idx /\ pc' = "square"
    ELSE IF e_idx > 1 THEN /\ i' = LimbBits - 1 /\ e_idx' = e_idx - 1 /\ pc' = "square"
    ELSE /\ i' = i /\ e_idx' = e_idx /\ pc' = "done"

\* A mutation of pow_select: tmp is taken when the bit is 0.
pow_select_inverted ==
    /\ pc = "select"
    /\ res' = conditional_assign(res, tmp, 1 - ExpBit(by[e_idx], i))
    /\ nSelect' = nSelect + 1
    /\ pow_advance
    /\ UNCHANGED <<callVars, chainVars, self, by, tmp, nSquare, nMul>>

\* res.conditional_assign(&tmp, bit.into());
pow_select ==
    /\ pc = "select"
    /\ res' = conditional_assign(res, tmp, ExpBit(by[e_idx], i))
    /\ nSelect' = nSelect + 1
    /\ pow_advance
    /\ UNCHANGED <<callVars, chainVars, self, by, tmp, nSquare, nMul>>

NextPow == ct_is_zero_call \/ pow_enter \/ pow_square \/ pow_mul \/ pow_select

SpecPow == InitPow /\ [][NextPow]_vars

\* ---------------------------------------------------- claims on the field
RECURSIVE NaivePow(_, _)
\* x multiplied by itself n times, for a small n.
NaivePow(x, n) == IF n = 0 THEN one ELSE mul(NaivePow(x, n - 1), x)

\* The powers x^0, x^1, ... take at most Modulus values, so from x^Modulus
\* on they repeat with some period of at most Modulus.
PeriodOf(x) ==
    CHOOSE l \in 1..Modulus : NaivePow(x, Modulus + l) = NaivePow(x, Modulus)

\* x multiplied by itself N times, for an exact natural number N of any
\* size: by the naive product below Modulus, and from there on by the naive
\* product of the exponent that N repeats.
PowRef(x, N) ==
    IF NatLess(N, FromInt(Modulus)) THEN NaivePow(x, ToInt(N))
    ELSE LET l == PeriodOf(x)
             r == (NatModSmall(N, l) + l - (Modulus % l)) % l
         IN  NaivePow(x, Modulus + r)

\* E = e0 + e1 * 2^64 + e2 * 2^128 + e3 * 2^192.
Exponent == LimbsValue(by)
TotalBits == ExpLimbs * LimbBits

\* C1: x.pow(by) is x multiplied by itself E times (one for E = 0, also for
\* x = 0).
C1_PowExponentiates ==
    pc = "done" =>
        /\ res = PowRef(self, Exponent)
        /\ Exponent = Zero => res = one

C1_Witness ==
    /\ pc = "done" /\ self = 3 % Modulus
    /\ by = [k \in 1..ExpLimbs |-> IF k = 1 THEN FromInt(3) ELSE Zero]
    /\ res = 27 % Modulus

\* C2: whatever the exponent and the base, pow executes square, multiply,
\* select in that order, over and over, and returns after exactly 256 of
\* each: no step is skipped and there is no early exit.
C2_PowFixedTrace ==
    /\ pc \in {"start", "tested"} => (nSquare = 0 /\ nMul = 0 /\ nSelect = 0)
    /\ pc = "square" => (nSquare = nSelect /\ nMul = nSelect /\ nSelect < TotalBits)
    /\ pc = "mul" => (nSquare = nSelect + 1 /\ nMul = nSelect /\ nSelect < TotalBits)
    /\ pc = "select" => (nSquare = nSelect + 1 /\ nMul = nSelect + 1 /\ nSelect < TotalBits)
    /\ pc = "done" => (nSquare = TotalBits /\ nMul = TotalBits /\ nSelect = TotalBits)

C2_Witness ==
    /\ pc = "done" /\ by = [k \in 1..ExpLimbs |-> Zero]
    /\ nSquare = TotalBits /\ nMul = TotalBits /\ nSelect = TotalBits

\* C9: after k of the 256 steps res is x raised to the top k bits of the
\* exponent, the bits being taken from limb by[3], bit 63 downwards; within
\* a step res is first squared, and tmp is the squared value times x.
C9_PowLoopInvariant ==
    LET k == nSelect
        prefix == NatShr(Exponent, TotalBits - k)
    IN  /\ pc \in {"square", "done"} => res = PowRef(self, prefix)
        /\ pc \in {"mul", "select"} => res = square(PowRef(self, prefix))
        /\ pc = "select" => tmp = mul(res, self)
        /\ pc \in {"square", "mul", "select"} =>
              /\ e_idx = ExpLimbs - (k \div LimbBits)
              /\ i = LimbBits - 1 - (k % LimbBits)

C9_Witness ==
    /\ pc = "square" /\ nSelect = LimbBits + 1 /\ self = 2 % Modulus
    /\ by = [k \in 1..ExpLimbs |-> MaxLimb]
    /\ res = PowRef(self, NatSub(Pow2(LimbBits + 1), One)) /\ e_idx = ExpLimbs - 1

\* C7: x.ct_is_zero() is true exactly when x is the additive identity.
C7_CtIsZero ==
    fn = "ct_is_zero" =>
        /\ ret[1] \in {0, 1}
        /\ (ret[1] = 1) <=> (args[1] = zero)

C7_Witness ==
    /\ fn = "ct_is_zero" /\ args = <<Modulus - 1>> /\ ret = <<0>>

====
